---- MODULE Spec2Model ----
(***************************************************************************)
(* react-generic-select: GenericMultiSelect and GenericSingleSelect.       *)
(*                                                                         *)
(* One component instance is modelled; `component` says which of the two   *)
(* it is.  Every action is one event handler (or timer callback, or prop   *)
(* change by the parent) together with the re-render and the effects that  *)
(* React runs because of it.  The four *Calls variables hold the calls the *)
(* component made to the caller's callbacks during the last step.          *)
(*                                                                         *)
(* Environment assumptions (the primitives are not part of the repository):*)
(*  - the popover content, and with it the list container scrollRef points *)
(*    to, is mounted exactly while the popover is open; a container that   *)
(*    is unmounted takes its listeners with it;                            *)
(*  - the browser clamps scrollTop to 0 .. scrollHeight - clientHeight.    *)
(***************************************************************************)
EXTENDS Integers, Sequences, FiniteSets, TLC

(***************************** bounds **************************************)
NumKeys == 3
MaxMaxCount == 2
MaxToggles == 4
MaxListeners == 2
MaxScrollTop == 12
ClientHeight == 4
WheelStep == 6
MaxBurst == 3

(************************* program constants *******************************)
NearBottomPx == 5
NearTopPx == 5

(***************************** strings *************************************)
\* A string is a sequence of one-character strings.
Digits == <<"0", "1", "2", "3", "4", "5", "6", "7", "8", "9">>

LowerChar(c) ==
  CASE c = "A" -> "a"
    [] c = "B" -> "b"
    [] OTHER -> c

ToLowerCase(s) == [i \in 1..Len(s) |-> LowerChar(s[i])]

RECURSIVE TrimStart(_)
TrimStart(s) ==
  IF s # <<>> /\ Head(s) = " " THEN TrimStart(Tail(s)) ELSE s

RECURSIVE TrimEnd(_)
TrimEnd(s) ==
  IF s # <<>> /\ s[Len(s)] = " " THEN TrimEnd(SubSeq(s, 1, Len(s) - 1)) ELSE s

Trim(s) == TrimEnd(TrimStart(s))

Includes(s, t) ==
  \E i \in 0..(Len(s) - Len(t)) : SubSeq(s, i + 1, i + Len(t)) = t

\* String(k) of a small non-negative number
StringOfKey(k) ==
  IF k < 10 THEN <<Digits[k + 1]>> ELSE <<Digits[(k \div 10) + 1], Digits[(k % 10) + 1]>>

(***************************** options *************************************)
Keys == 1..NumKeys
Null == 0

LabelOf(k) ==
  CASE k % 3 = 1 -> <<"A", "b">>
    [] k % 3 = 2 -> <<"b", "a">>
    [] OTHER -> <<"B", " ", "2">>

Opt(k) == [value |-> k, label |-> LabelOf(k)]

\* a second record with the key of Opt(1): the types allow it
Twin == [value |-> 1, label |-> <<"a", "b", "2">>]

AllOptions == {Opt(k) : k \in Keys} \cup {Twin}

Page(n) == [i \in 1..n |-> Opt(i)]

\* the values the parent gives the options prop: pages loaded so far, a search
\* result in another order, a list with another record for key 1, and a list
\* holding two records with the same key
OptionLists ==
  {Page(n) : n \in 0..NumKeys}
    \cup {<<Opt(NumKeys), Opt(2)>>, <<Twin, Opt(2)>>, <<Opt(1), Twin>>}

DefaultValues == {<<>>, <<Opt(2)>>, <<Opt(NumKeys), Opt(1)>>, <<Twin, Opt(1)>>}

MaxCounts == 0..MaxMaxCount

SearchTexts == {<<>>, <<"a", " ">>, <<"A", "B">>, <<" ">>, <<"2">>}

LoadMoreFns == {"none", "f", "g"}

KeysOf(s) == [i \in 1..Len(s) |-> s[i].value]

DistinctKeys(s) == \A i, j \in 1..Len(s) : s[i].value = s[j].value => i = j

(***************************** state ***************************************)
VARIABLES
  component,                \* "multi" | "single"
  \* props
  options, maxCount, setAlternativeValue, value, onSearchChange,
  onLoadMore, hasNextPage, isFetchingNextPage, isLoading,
  \* component state
  selectedOptions, isOpen, localSearch, debouncedSearch, debounceTimer,
  isFetchingNextPageRef, attachTimer, listeners, scrollTop,
  \* calls made to the caller during the last step
  onValueChangeCalls, setAlternativeValueCalls, onSearchChangeCalls,
  onLoadMoreCalls,
  \* observers; burst counts the changes of the search text made while the
  \* debounce timer was pending, up to its last firing; wheelDelta is the deltaY of the last
  \* event when that was a wheel event
  lastOp, lastItem, prevSelected, lastReported, toggleHist, inputsDistinct,
  closeNotifs, defaultPrevented, burst, wheelDelta

propVars == <<options, maxCount, setAlternativeValue, value, onSearchChange,
              onLoadMore, hasNextPage, isFetchingNextPage, isLoading>>
selVars == <<selectedOptions, prevSelected, lastReported, toggleHist>>
searchVars == <<localSearch, debouncedSearch, debounceTimer, burst>>
scrollVars == <<isFetchingNextPageRef, attachTimer, listeners, scrollTop, defaultPrevented,
               wheelDelta>>
callVars == <<onValueChangeCalls, setAlternativeValueCalls, onSearchChangeCalls,
              onLoadMoreCalls>>
vars == <<component, propVars, selVars, isOpen, searchVars, scrollVars, callVars,
          lastOp, lastItem, inputsDistinct, closeNotifs>>

NoTimer == [armed |-> FALSE, hasNextPage |-> FALSE, isLoading |-> FALSE,
            onLoadMore |-> "none"]

\* the closure the infinite-scroll effect's timer callback is created with
Closure(hnp, ld, olm) ==
  [armed |-> TRUE, hasNextPage |-> hnp, isLoading |-> ld, onLoadMore |-> olm]

NoItem == [value |-> Null, label |-> <<>>]
NoReport == [called |-> FALSE, keys |-> <<>>]
NoHist == [tracked |-> FALSE, seq |-> <<>>]

(***************************** geometry ************************************)
ScrollHeight == ClientHeight + MaxScrollTop

\* where a scroll event may leave the container: the top, the first position
\* past the top zone, the first position of the bottom zone, the bottom
ScrollPositions ==
  {0, NearTopPx + 1, MaxScrollTop - NearBottomPx, MaxScrollTop}

WheelDeltas == {-WheelStep, WheelStep}

Clamp(x) == IF x < 0 THEN 0 ELSE IF x > MaxScrollTop THEN MaxScrollTop ELSE x

AtBottom(st) == st + ClientHeight >= ScrollHeight - NearBottomPx

AtTop(st) == st <= NearTopPx

(************************ MultiSelect: selection ***************************)
HasKey(sel, k) == \E i \in 1..Len(sel) : sel[i].value = k

RemoveKey(sel, k) == SelectSeq(sel, LAMBDA x : x.value # k)

\* a toggle that never looks at what is selected
ToggleOptionResultNoCheck(sel, o) == Append(sel, o)

\* a toggle that puts the new option first
ToggleOptionResultPrepend(sel, o) ==
  IF HasKey(sel, o.value) THEN RemoveKey(sel, o.value) ELSE <<o>> \o sel

ToggleOptionResult(sel, o) ==
  IF HasKey(sel, o.value) THEN RemoveKey(sel, o.value) ELSE Append(sel, o)

\* a trim that keeps the last k
ClearExtraResultTail(sel, k) ==
  IF k >= Len(sel) THEN sel ELSE SubSeq(sel, Len(sel) - k + 1, Len(sel))

\* selectedOptions.slice(0, maxCount), maxCount >= 0
ClearExtraResult(sel, k) ==
  IF k >= Len(sel) THEN sel ELSE SubSeq(sel, 1, k)

\* a trigger whose overflow badge appears one item early
TriggerViewEarlyOverflow(sel, k) ==
  [placeholder |-> ~(Len(sel) > 0),
   badges |-> IF Len(sel) > 0 THEN ClearExtraResult(sel, k) ELSE <<>>,
   overflow |-> Len(sel) > 0 /\ Len(sel) >= k,
   more |-> Len(sel) - k]

\* what the trigger button renders: the placeholder, or a badge for each of
\* selectedOptions.slice(0, maxCount) and the "+ N more" badge
TriggerView(sel, k) ==
  [placeholder |-> ~(Len(sel) > 0),
   badges |-> IF Len(sel) > 0 THEN ClearExtraResult(sel, k) ELSE <<>>,
   overflow |-> Len(sel) > 0 /\ Len(sel) > k,
   more |-> Len(sel) - k]

\* what toggleAll selects when the lengths differ
ToggleAllSelects(sel, opts) == opts

\* a select-all that reports what was selected before
ToggleAllReportsOld(sel, opts) == KeysOf(sel)

\* what toggleAll reports when the lengths differ
ToggleAllReports(sel, opts) == KeysOf(opts)

\* setSelectedOptions(newSel); onValueChange(keys); setAlternativeValue?.(objs)
Report(op, item, newSel, keys, objs) ==
  /\ selectedOptions' = newSel
  /\ prevSelected' = selectedOptions
  /\ onValueChangeCalls' = <<keys>>
  /\ setAlternativeValueCalls' = IF setAlternativeValue THEN <<objs>> ELSE <<>>
  /\ lastReported' = [called |-> TRUE, keys |-> keys]
  /\ lastOp' = op
  /\ lastItem' = item
  /\ onSearchChangeCalls' = <<>>
  /\ onLoadMoreCalls' = <<>>

ToggleOption(o) ==
  /\ component = "multi"
  /\ LET newSelected == ToggleOptionResult(selectedOptions, o)
     IN Report("toggleOption", o, newSelected, KeysOf(newSelected), newSelected)
  /\ toggleHist' = IF toggleHist.tracked /\ Len(toggleHist.seq) < MaxToggles
                   THEN [toggleHist EXCEPT !.seq = Append(@, o)]
                   ELSE NoHist
  /\ UNCHANGED <<component, propVars, isOpen, searchVars, scrollVars,
                 inputsDistinct, closeNotifs>>

\* the CommandItem of an option of the list
ToggleOptionItem ==
  /\ isOpen
  /\ \E i \in 1..Len(options) : ToggleOption(options[i])

\* the XCircle of a badge
ToggleOptionBadge ==
  \E i \in 1..Len(selectedOptions) :
    /\ i <= maxCount
    /\ ToggleOption(selectedOptions[i])

DoHandleClear(op) ==
  /\ Report(op, NoItem, <<>>, <<>>, <<>>)
  /\ toggleHist' = NoHist
  /\ UNCHANGED <<component, propVars, isOpen, searchVars, scrollVars,
                 inputsDistinct, closeNotifs>>

\* the XIcon of the trigger
HandleClear ==
  /\ component = "multi"
  /\ Len(selectedOptions) > 0
  /\ DoHandleClear("handleClear")

\* the XCircle of the "+ N more" badge
ClearExtraOptions ==
  /\ component = "multi"
  /\ Len(selectedOptions) > maxCount
  /\ LET newSelected == ClearExtraResult(selectedOptions, maxCount)
     IN Report("clearExtraOptions", NoItem, newSelected, KeysOf(newSelected), newSelected)
  /\ toggleHist' = NoHist
  /\ UNCHANGED <<component, propVars, isOpen, searchVars, scrollVars,
                 inputsDistinct, closeNotifs>>

\* the "(Select All)" CommandItem
ToggleAll ==
  /\ component = "multi"
  /\ isOpen
  /\ IF Len(selectedOptions) = Len(options)
     THEN DoHandleClear("toggleAll")
     ELSE /\ Report("toggleAll", NoItem, ToggleAllSelects(selectedOptions, options),
                    ToggleAllReports(selectedOptions, options), options)
          /\ toggleHist' = NoHist
          /\ UNCHANGED <<component, propVars, isOpen, searchVars, scrollVars,
                         inputsDistinct, closeNotifs>>

(***************************** props ***************************************)
NoCalls ==
  /\ onValueChangeCalls' = <<>>
  /\ setAlternativeValueCalls' = <<>>
  /\ onSearchChangeCalls' = <<>>
  /\ onLoadMoreCalls' = <<>>

\* a component that drops the selected items missing from the new options
SetOptionsToPruning(l) ==
  /\ l # options
  /\ options' = l
  /\ selectedOptions' = SelectSeq(selectedOptions, LAMBDA x : HasKey(l, x.value))
  /\ inputsDistinct' = (inputsDistinct /\ DistinctKeys(l))
  /\ lastOp' = "setOptions"
  /\ lastItem' = NoItem
  /\ NoCalls
  /\ UNCHANGED <<component, maxCount, setAlternativeValue, value, onSearchChange,
                 onLoadMore, hasNextPage, isFetchingNextPage, isLoading,
                 prevSelected, lastReported, toggleHist, isOpen, searchVars,
                 scrollVars, closeNotifs>>

\* the parent renders the component with the options list l
SetOptionsTo(l) ==
  /\ l # options
  /\ options' = l
  /\ inputsDistinct' = (inputsDistinct /\ DistinctKeys(l))
  /\ lastOp' = "setOptions"
  /\ lastItem' = NoItem
  /\ NoCalls
  /\ UNCHANGED <<component, maxCount, setAlternativeValue, value, onSearchChange,
                 onLoadMore, hasNextPage, isFetchingNextPage, isLoading,
                 selVars, isOpen, searchVars, scrollVars, closeNotifs>>

\* the parent renders the component with another options list
SetOptions == \E l \in OptionLists : SetOptionsTo(l)

\* the lists of a parent that pages: the first page, all pages
PagedOptionLists == {Page(1), Page(NumKeys)}

SetOptionsPaged == \E l \in PagedOptionLists : SetOptionsTo(l)

\* the parent renders the single select with another value
SetValue ==
  \E v \in Keys \cup {Null} :
    /\ component = "single"
    /\ v # value
    /\ value' = v
    /\ lastOp' = "setValue"
    /\ lastItem' = NoItem
    /\ NoCalls
    /\ UNCHANGED <<component, options, maxCount, setAlternativeValue, onSearchChange,
                   onLoadMore, hasNextPage, isFetchingNextPage, isLoading,
                   selVars, isOpen, searchVars, scrollVars, inputsDistinct,
                   closeNotifs>>

(************************* popover and search ******************************)
\* useDebounce(value, 300): a change of value cancels the pending timer and
\* sets a new one; the timer sets the debounced value to the value
DebounceArmed(timer, old, new) == timer \/ old # new

DebounceSettles(val) == val

NotClosed == [closed |-> FALSE, count |-> 0]

\* SingleSelect's search effect runs when isOpen changes; MultiSelect's does not
SearchEffectOnOpen ==
  IF component = "single" /\ onSearchChange THEN <<debouncedSearch>> ELSE <<>>

\* Popover onOpenChange(true)
Open ==
  /\ ~isOpen
  /\ isOpen' = TRUE
  /\ onSearchChangeCalls' = SearchEffectOnOpen
  /\ attachTimer' = Closure(hasNextPage, isLoading, onLoadMore)
  /\ listeners' = <<>>
  /\ scrollTop' = 0
  /\ defaultPrevented' = FALSE
  /\ wheelDelta' = 0
  /\ closeNotifs' = NotClosed
  /\ lastOp' = "open"
  /\ lastItem' = NoItem
  /\ onValueChangeCalls' = <<>>
  /\ setAlternativeValueCalls' = <<>>
  /\ onLoadMoreCalls' = <<>>
  /\ UNCHANGED <<component, propVars, selVars, searchVars, isFetchingNextPageRef,
                 inputsDistinct>>

\* MultiSelect's onOpenChange calls onSearchChange("") on close; SingleSelect's
\* onOpenChange is setIsOpen
SearchCallsOnClose ==
  IF component = "multi" /\ onSearchChange THEN <<(<<>>)>> ELSE <<>>

\* what follows setIsOpen(false): the list container goes, the reset effect
\* empties localSearch (useDebounce re-arms when that changes it), the
\* infinite-scroll effect re-arms its timer
CloseEffects ==
  /\ isOpen' = FALSE
  /\ localSearch' = <<>>
  /\ debounceTimer' = DebounceArmed(debounceTimer, localSearch, <<>>)
  /\ burst' = 0
  /\ attachTimer' = Closure(hasNextPage, isLoading, onLoadMore)
  /\ listeners' = <<>>
  /\ scrollTop' = 0
  /\ defaultPrevented' = FALSE
  /\ wheelDelta' = 0
  /\ UNCHANGED <<debouncedSearch, isFetchingNextPageRef>>

\* Popover onOpenChange(false)
Close ==
  /\ isOpen
  /\ CloseEffects
  /\ onSearchChangeCalls' = SearchCallsOnClose
  /\ closeNotifs' = [closed |-> TRUE, count |-> Len(SearchCallsOnClose)]
  /\ lastOp' = "close"
  /\ lastItem' = NoItem
  /\ onValueChangeCalls' = <<>>
  /\ setAlternativeValueCalls' = <<>>
  /\ onLoadMoreCalls' = <<>>
  /\ UNCHANGED <<component, propVars, selVars, inputsDistinct>>

\* the search field's onChange / onValueChange
Type ==
  \E s \in SearchTexts :
    /\ isOpen
    /\ component = "multi" => onSearchChange
    /\ s # localSearch
    /\ debounceTimer => burst < MaxBurst
    /\ localSearch' = s
    /\ burst' = IF debounceTimer THEN burst + 1 ELSE 1
    /\ debounceTimer' = DebounceArmed(debounceTimer, localSearch, s)
    /\ lastOp' = "type"
    /\ lastItem' = NoItem
    /\ NoCalls
    /\ UNCHANGED <<component, propVars, selVars, isOpen, debouncedSearch,
                   scrollVars, inputsDistinct, closeNotifs>>

\* a search effect that does not look at isOpen
SearchEffectIgnoringOpen(d) == IF onSearchChange THEN <<d>> ELSE <<>>

\* a search effect that runs twice for one change of debouncedSearch
SearchEffectTwice(d) ==
  IF onSearchChange /\ (component = "multi" \/ isOpen) THEN <<d>> \o <<d>> ELSE <<>>

\* the search effect after debouncedSearch changed to d
SearchEffect(d) ==
  IF onSearchChange /\ (component = "multi" \/ isOpen) THEN <<d>> ELSE <<>>

\* useDebounce's timer fires: setDebouncedValue(value)
DebounceFires ==
  /\ debounceTimer
  /\ debounceTimer' = FALSE
  /\ debouncedSearch' = DebounceSettles(localSearch)
  /\ LET called == IF debouncedSearch' # debouncedSearch
                   THEN SearchEffect(debouncedSearch') ELSE <<>>
     IN /\ onSearchChangeCalls' = called
        /\ closeNotifs' =
             IF closeNotifs.closed /\ called = <<(<<>>)>>
             THEN [closeNotifs EXCEPT !.count = @ + 1]
             ELSE closeNotifs
  /\ lastOp' = "debounce"
  /\ lastItem' = NoItem
  /\ onValueChangeCalls' = <<>>
  /\ setAlternativeValueCalls' = <<>>
  /\ onLoadMoreCalls' = <<>>
  /\ UNCHANGED <<component, propVars, selVars, isOpen, localSearch, burst,
                 scrollVars, inputsDistinct>>

(********************** SingleSelect: the shown list ***********************)
\* a filter that looks at the label only
MatchesLabelOnly(option, d) ==
  Includes(ToLowerCase(option.label), Trim(ToLowerCase(d)))

\* the predicate of options.filter
Matches(option, d) ==
  LET label == option.label
      optionValue == StringOfKey(option.value)
      term == Trim(ToLowerCase(d))
  IN Includes(ToLowerCase(label), term) \/ Includes(ToLowerCase(optionValue), term)

\* a shown list that is filtered locally whether or not the caller searches
FilteredOptionsAlwaysLocal ==
  IF Trim(debouncedSearch) = <<>>
  THEN options
  ELSE SelectSeq(options, LAMBDA o : Matches(o, debouncedSearch))

FilteredOptions ==
  IF onSearchChange \/ Trim(debouncedSearch) = <<>>
  THEN options
  ELSE SelectSeq(options, LAMBDA o : Matches(o, debouncedSearch))

(***************************** the list area *******************************)
\* the options rendered as items: filteredOptions.map in SingleSelect,
\* options.map (after the "(Select All)" item) in MultiSelect
ShownOptions == IF component = "single" THEN FilteredOptions ELSE options

\* the empty-state message: SingleSelect renders CommandEmpty in place of the
\* group when filteredOptions is empty; MultiSelect's list has no such branch
EmptyMessageShown == component = "single" /\ Len(FilteredOptions) = 0

\* an onSelect that always reports the key
SelectReportsKey(option, v) == option.value

\* onValueChange(isSelected ? null : option[valueKey])
SelectReports(option, v) == IF option.value = v THEN Null ELSE option.value

\* CommandItem onSelect
Select ==
  \E i \in 1..Len(FilteredOptions) :
    /\ component = "single"
    /\ isOpen
    /\ onValueChangeCalls' = <<SelectReports(FilteredOptions[i], value)>>
    /\ CloseEffects
    /\ closeNotifs' = [closed |-> TRUE, count |-> 0]
    /\ lastOp' = "select"
    /\ lastItem' = FilteredOptions[i]
    /\ onSearchChangeCalls' = <<>>
    /\ setAlternativeValueCalls' = <<>>
    /\ onLoadMoreCalls' = <<>>
    /\ UNCHANGED <<component, propVars, selVars, inputsDistinct>>

(*************************** infinite scroll *******************************)
\* a prop the infinite-scroll effect depends on changed: the effect's cleanup
\* clears the pending timer and the effect sets a new one
PropChanged(op) ==
  /\ attachTimer' = Closure(hasNextPage', isLoading', onLoadMore')
  /\ lastOp' = op
  /\ lastItem' = NoItem
  /\ NoCalls
  /\ UNCHANGED <<component, options, maxCount, setAlternativeValue, value,
                 onSearchChange, selVars, isOpen, searchVars, listeners, scrollTop,
                 defaultPrevented, wheelDelta, inputsDistinct, closeNotifs>>

SetHasNextPage ==
  /\ hasNextPage' = ~hasNextPage
  /\ UNCHANGED <<onLoadMore, isFetchingNextPage, isLoading, isFetchingNextPageRef>>
  /\ PropChanged("setHasNextPage")

\* the ref effect copies the new prop into isFetchingNextPageRef
SetIsFetchingNextPage ==
  /\ isFetchingNextPage' = ~isFetchingNextPage
  /\ isFetchingNextPageRef' = isFetchingNextPage'
  /\ UNCHANGED <<onLoadMore, hasNextPage, isLoading>>
  /\ PropChanged("setIsFetchingNextPage")

SetIsLoading ==
  /\ isLoading' = ~isLoading
  /\ UNCHANGED <<onLoadMore, hasNextPage, isFetchingNextPage, isFetchingNextPageRef>>
  /\ PropChanged("setIsLoading")

SetOnLoadMore ==
  \E f \in LoadMoreFns :
    /\ f # onLoadMore
    /\ onLoadMore' = f
    /\ UNCHANGED <<hasNextPage, isFetchingNextPage, isLoading, isFetchingNextPageRef>>
    /\ PropChanged("setOnLoadMore")

\* the early return of the timer callback
Attaches(c) ==
  /\ isOpen
  /\ c.onLoadMore # "none"
  /\ component = "multi" => c.hasNextPage

\* handleScroll and handleWheel, closed over the props of the render that set
\* the timer
Listener(c) ==
  [hasNextPage |-> c.hasNextPage, isLoading |-> c.isLoading, onLoadMore |-> c.onLoadMore]

\* the listeners on the container after the timer callback ran; what the
\* callback returns is dropped by setTimeout, so nothing is ever removed
AttachedListeners(ls, c) == IF Attaches(c) THEN Append(ls, Listener(c)) ELSE ls

\* the 10 ms timer of the infinite-scroll effect fires
AttachTimerFires ==
  /\ attachTimer.armed
  /\ Attaches(attachTimer) => Len(listeners) < MaxListeners
  /\ listeners' = AttachedListeners(listeners, attachTimer)
  /\ attachTimer' = NoTimer
  /\ lastOp' = "attach"
  /\ lastItem' = NoItem
  /\ NoCalls
  /\ UNCHANGED <<component, propVars, selVars, isOpen, searchVars,
                 isFetchingNextPageRef, scrollTop, defaultPrevented, wheelDelta,
                 inputsDistinct, closeNotifs>>

\* onLoadMore() as called by listener l with the container at st
LoadMoreCall(l, st) == [fn |-> l.onLoadMore, scrollTop |-> st]

\* handleScroll of listener l with the container at st: the onLoadMore calls
HandleScroll(l, st, ref) ==
  IF ~l.hasNextPage \/ ref THEN <<>>
  ELSE IF AtBottom(st) /\ ~l.isLoading /\ ~ref THEN <<LoadMoreCall(l, st)>> ELSE <<>>

RECURSIVE ScrollCalls(_, _, _)
ScrollCalls(ls, st, ref) ==
  IF ls = <<>> THEN <<>>
  ELSE HandleScroll(Head(ls), st, ref) \o ScrollCalls(Tail(ls), st, ref)

\* a scroll event on the list container, scrolled to p
ScrollEvent ==
  \E p \in ScrollPositions :
    /\ isOpen
    /\ scrollTop' = p
    /\ onLoadMoreCalls' = ScrollCalls(listeners, p, isFetchingNextPageRef)
    /\ defaultPrevented' = FALSE
    /\ wheelDelta' = 0
    /\ lastOp' = "scroll"
    /\ lastItem' = NoItem
    /\ onValueChangeCalls' = <<>>
    /\ setAlternativeValueCalls' = <<>>
    /\ onSearchChangeCalls' = <<>>
    /\ UNCHANGED <<component, propVars, selVars, isOpen, searchVars,
                   isFetchingNextPageRef, attachTimer, listeners, inputsDistinct,
                   closeNotifs>>

\* SingleSelect's handleWheel leaves the event to the parent
Bubbles(l, st, d) ==
  /\ component = "single"
  /\ \/ AtBottom(st) /\ d > 0 /\ ~l.hasNextPage
     \/ AtTop(st) /\ d < 0

\* handleWheel of listener l on a container at w.st
HandleWheel(l, w, d, ref) ==
  IF Bubbles(l, w.st, d) THEN w
  ELSE LET st == Clamp(w.st + d)
       IN [st |-> st,
           calls |-> w.calls \o (IF ~l.isLoading THEN HandleScroll(l, st, ref) ELSE <<>>),
           prevented |-> TRUE]

RECURSIVE WheelRun(_, _, _, _)
WheelRun(ls, w, d, ref) ==
  IF ls = <<>> THEN w
  ELSE WheelRun(Tail(ls), HandleWheel(Head(ls), w, d, ref), d, ref)

\* a wheel event on the list container
WheelEvent ==
  \E d \in WheelDeltas :
    /\ isOpen
    /\ LET w == WheelRun(listeners,
                         [st |-> scrollTop, calls |-> <<>>, prevented |-> FALSE],
                         d, isFetchingNextPageRef)
       IN /\ scrollTop' = w.st
          /\ onLoadMoreCalls' = w.calls
          /\ defaultPrevented' = w.prevented
    /\ wheelDelta' = d
    /\ lastOp' = "wheel"
    /\ lastItem' = NoItem
    /\ onValueChangeCalls' = <<>>
    /\ setAlternativeValueCalls' = <<>>
    /\ onSearchChangeCalls' = <<>>
    /\ UNCHANGED <<component, propVars, selVars, isOpen, searchVars,
                   isFetchingNextPageRef, attachTimer, listeners, inputsDistinct,
                   closeNotifs>>

(************************** specifications *********************************)
\* the state after mount, with the popover closed
Mounted ==
  /\ isOpen = FALSE
  /\ localSearch = <<>>
  /\ debouncedSearch = <<>>
  /\ debounceTimer = TRUE
  /\ burst = 0
  /\ isFetchingNextPageRef = isFetchingNextPage
  /\ attachTimer = Closure(hasNextPage, isLoading, onLoadMore)
  /\ listeners = <<>>
  /\ scrollTop = 0
  /\ defaultPrevented = FALSE
  /\ wheelDelta = 0
  /\ onValueChangeCalls = <<>>
  /\ setAlternativeValueCalls = <<>>
  /\ onSearchChangeCalls = IF component = "multi" /\ onSearchChange THEN <<(<<>>)>> ELSE <<>>
  /\ onLoadMoreCalls = <<>>
  /\ lastOp = "mount"
  /\ lastItem = NoItem
  /\ prevSelected = selectedOptions
  /\ lastReported = NoReport
  /\ closeNotifs = NotClosed

\* MultiSelect, its selection
InitSelect ==
  /\ component = "multi"
  /\ options \in OptionLists
  /\ maxCount \in MaxCounts
  /\ setAlternativeValue \in BOOLEAN
  /\ selectedOptions \in DefaultValues
  /\ toggleHist = NoHist
  /\ inputsDistinct = (DistinctKeys(options) /\ DistinctKeys(selectedOptions))
  /\ value = Null
  /\ onSearchChange = TRUE
  /\ onLoadMore = "none"
  /\ hasNextPage = FALSE
  /\ isFetchingNextPage = FALSE
  /\ isLoading = FALSE
  /\ Mounted

NextSelect ==
  \/ ToggleOptionItem
  \/ ToggleOptionBadge
  \/ HandleClear
  \/ ClearExtraOptions
  \/ ToggleAll
  \/ SetOptions
  \/ Open
  \/ Close

SpecSelect == InitSelect /\ [][NextSelect]_vars

\* MultiSelect from an empty default selection, toggles only; the toggles are
\* recorded
InitToggle ==
  /\ component = "multi"
  /\ options \in OptionLists
  /\ maxCount \in MaxCounts
  /\ setAlternativeValue = FALSE
  /\ selectedOptions = <<>>
  /\ toggleHist = [tracked |-> TRUE, seq |-> <<>>]
  /\ inputsDistinct = DistinctKeys(options)
  /\ value = Null
  /\ onSearchChange = TRUE
  /\ onLoadMore = "none"
  /\ hasNextPage = FALSE
  /\ isFetchingNextPage = FALSE
  /\ isLoading = FALSE
  /\ Mounted

NextToggle ==
  \/ ToggleOptionItem
  \/ ToggleOptionBadge
  \/ SetOptions
  \/ Open
  \/ Close

SpecToggle == InitToggle /\ [][NextToggle]_vars

\* both components, the popover and the search field; SingleSelect's choice
InitSearch ==
  /\ component \in {"multi", "single"}
  /\ options = Page(NumKeys)
  /\ maxCount = MaxMaxCount
  /\ setAlternativeValue = FALSE
  /\ selectedOptions = <<>>
  /\ toggleHist = NoHist
  /\ inputsDistinct = TRUE
  /\ value \in {Null, 1}
  /\ onSearchChange \in BOOLEAN
  /\ onLoadMore = "none"
  /\ hasNextPage = FALSE
  /\ isFetchingNextPage = FALSE
  /\ isLoading = FALSE
  /\ Mounted

NextSearch ==
  \/ Open
  \/ Close
  \/ Type
  \/ DebounceFires
  \/ Select
  \/ SetValue

SpecSearch == InitSearch /\ [][NextSearch]_vars

\* both components, infinite scroll
InitScroll ==
  /\ component \in {"multi", "single"}
  /\ options = Page(NumKeys)
  /\ maxCount = MaxMaxCount
  /\ setAlternativeValue = FALSE
  /\ selectedOptions = <<>>
  /\ toggleHist = NoHist
  /\ inputsDistinct = TRUE
  /\ value = Null
  /\ onSearchChange = FALSE
  /\ onLoadMore \in LoadMoreFns
  /\ hasNextPage \in BOOLEAN
  /\ isFetchingNextPage \in BOOLEAN
  /\ isLoading \in BOOLEAN
  /\ Mounted

NextScroll ==
  \/ Open
  \/ Close
  \/ SetHasNextPage
  \/ SetIsFetchingNextPage
  \/ SetIsLoading
  \/ SetOnLoadMore
  \/ AttachTimerFires
  \/ ScrollEvent
  \/ WheelEvent

SpecScroll == InitScroll /\ [][NextScroll]_vars

\* the infinite-scroll effect and its timer alone; a timer that is set and not
\* cleared fires
NextAttach ==
  \/ Open
  \/ Close
  \/ SetHasNextPage
  \/ SetIsFetchingNextPage
  \/ SetIsLoading
  \/ SetOnLoadMore
  \/ AttachTimerFires

SpecAttach == InitScroll /\ [][NextAttach]_vars /\ WF_vars(AttachTimerFires)

\* MultiSelect with a selection, used either with a search callback or with a
\* load-more callback: everything that can happen to it besides toggling,
\* clearing and trimming
InitFrame ==
  /\ component = "multi"
  /\ options = Page(NumKeys)
  /\ maxCount = MaxMaxCount
  /\ setAlternativeValue = TRUE
  /\ selectedOptions \in {<<Opt(2)>>, <<Opt(NumKeys), Opt(1)>>}
  /\ toggleHist = NoHist
  /\ inputsDistinct = TRUE
  /\ value = Null
  /\ onSearchChange \in BOOLEAN
  /\ onLoadMore = IF onSearchChange THEN "none" ELSE "f"
  /\ hasNextPage = TRUE
  /\ isFetchingNextPage = FALSE
  /\ isLoading = FALSE
  /\ Mounted

NextFrame ==
  \/ Open
  \/ Close
  \/ Type
  \/ DebounceFires
  \/ SetOptionsPaged
  \/ SetHasNextPage
  \/ SetIsFetchingNextPage
  \/ SetIsLoading
  \/ AttachTimerFires
  \/ ScrollEvent
  \/ WheelEvent

SpecFrame == InitFrame /\ [][NextFrame]_vars

(******************************* claims ************************************)
Count(h, o) == Cardinality({i \in 1..Len(h) : h[i] = o})

\* the positions of h that hold the last toggle of an option toggled an odd
\* number of times, in increasing order
LastOddPositions(h) ==
  SelectSeq([i \in 1..Len(h) |-> i],
            LAMBDA i : /\ Count(h, h[i]) % 2 = 1
                       /\ \A j \in (i + 1)..Len(h) : h[j] # h[i])

ExpectedKeys(h) ==
  LET pos == LastOddPositions(h) IN [n \in 1..Len(pos) |-> h[pos[n]].value]

\* different toggled options have different keys
DistinctToggled(h) ==
  \A i, j \in 1..Len(h) : h[i] # h[j] => h[i].value # h[j].value

\* C1: from an empty default selection, after toggleOption calls only, on
\* options with distinct keys, the last list given to onValueChange holds the
\* keys of the options toggled an odd number of times, in the order of their
\* most recent toggle.
C1_ToggleParity ==
  (toggleHist.tracked /\ toggleHist.seq # <<>> /\ DistinctToggled(toggleHist.seq))
    => /\ lastReported.called
       /\ lastReported.keys = ExpectedKeys(toggleHist.seq)

C1_Witness ==
  /\ toggleHist.tracked
  /\ DistinctToggled(toggleHist.seq)
  /\ Len(toggleHist.seq) = 4
  /\ Count(toggleHist.seq, Opt(1)) = 3
  /\ lastReported.keys = <<2, 1>>

ContainsAll(sel, opts) == \A i \in 1..Len(opts) : HasKey(sel, opts[i].value)

\* C2: toggleAll on a selection that does not contain every current option
\* selects and reports the whole options list, and a toggleAll right after it
\* selects and reports the empty list.
C2_SelectAllThenClear ==
  [][lastOp' = "toggleAll" =>
       /\ ~ContainsAll(selectedOptions, options) =>
            /\ selectedOptions' = options
            /\ onValueChangeCalls' = <<KeysOf(options)>>
       /\ (lastOp = "toggleAll" /\ ~ContainsAll(prevSelected, options)) =>
            /\ selectedOptions' = <<>>
            /\ onValueChangeCalls' = <<(<<>>)>>]_vars

\* C3: onLoadMore is called only with the popover open, the hasNextPage prop
\* true, the isFetchingNextPage prop false and the container within 5px of
\* the bottom.
C3_LoadMoreSafety ==
  \A n \in 1..Len(onLoadMoreCalls) :
    /\ isOpen
    /\ hasNextPage
    /\ ~isFetchingNextPage
    /\ AtBottom(onLoadMoreCalls[n].scrollTop)

\* the listeners of the current props are attached and no timer is pending
Settled ==
  /\ isOpen
  /\ ~attachTimer.armed
  /\ listeners # <<>>
  /\ onLoadMore # "none"

\* C4: with hasNextPage true and isFetchingNextPage false, one scroll or wheel
\* event that leaves the container within 5px of the bottom calls onLoadMore
\* exactly once, whatever changed earlier while the popover was open; an event
\* delivered while isFetchingNextPage is true calls it not at all.
C4_NoDuplicateLoadMore ==
  lastOp \in {"scroll", "wheel"} =>
    /\ (Settled /\ hasNextPage /\ ~isFetchingNextPage /\ ~isLoading
          /\ AtBottom(scrollTop))
         => Len(onLoadMoreCalls) = 1
    /\ isFetchingNextPage => onLoadMoreCalls = <<>>

\* C5: at most one scroll listener and one wheel listener of the component
\* are on the container, and none while the popover is closed.
C5_ListenerPairing ==
  /\ Len(listeners) <= 1
  /\ ~isOpen => listeners = <<>>

\* C6: clearExtraOptions on a selection longer than maxCount sets the selection
\* to its first maxCount items, in order, and reports their keys.
C6_OverflowTrim ==
  lastOp = "clearExtraOptions" =>
    /\ Len(prevSelected) > maxCount
    /\ Len(selectedOptions) = maxCount
    /\ \A i \in 1..maxCount : selectedOptions[i] = prevSelected[i]
    /\ onValueChangeCalls = <<[i \in 1..maxCount |-> prevSelected[i].value]>>

C6_Witness ==
  /\ lastOp = "clearExtraOptions"
  /\ maxCount = 1
  /\ Len(prevSelected) = 3
  /\ selectedOptions = <<prevSelected[1]>>
  /\ prevSelected[1] # Opt(1)

\* C7: selecting a shown option whose key is the value prop reports null;
\* selecting one whose key differs reports that key and closes the popover.
C7_SingleSelect ==
  lastOp = "select" =>
    /\ lastItem.value = value => onValueChangeCalls = <<Null>>
    /\ lastItem.value # value =>
         /\ onValueChangeCalls = <<lastItem.value>>
         /\ ~isOpen

C7_Witness ==
  /\ lastOp = "select"
  /\ lastItem.value = value
  /\ onValueChangeCalls = <<Null>>
  /\ ~isOpen

\* C8: after the popover closed the search text is empty, and the close has
\* caused exactly one onSearchChange("") where the close handler notifies
\* (MultiSelect with onSearchChange), counting the debounced term settling.
C8_CloseNotifiesOnce ==
  closeNotifs.closed =>
    /\ localSearch = <<>>
    /\ closeNotifs.count <= 1
    /\ (component = "multi" /\ onSearchChange) => closeNotifs.count = 1

\* C9: no two items of the selection have the same key.
C9_UniqueKeys == DistinctKeys(selectedOptions)

\* C9 (amended): when defaultValue and every options list given have pairwise
\* distinct keys, no two items of the selection have the same key.
C9_UniqueKeysOfDistinctInputs == inputsDistinct => DistinctKeys(selectedOptions)

C9_Witness ==
  /\ inputsDistinct
  /\ lastOp = "toggleOption"
  /\ Len(selectedOptions) = NumKeys
  /\ HasKey(prevSelected, 1)
  /\ selectedOptions[NumKeys] = lastItem

\* C10: every change of the selection calls onValueChange, in the same step,
\* with the keys of the new selection in order, and setAlternativeValue (when
\* given) with the new selection; so the last reported list is the key list of
\* the selection.
C10_Reporting ==
  /\ [][selectedOptions' # selectedOptions =>
          /\ onValueChangeCalls' = <<[i \in 1..Len(selectedOptions') |->
                                        selectedOptions'[i].value]>>
          /\ setAlternativeValue => setAlternativeValueCalls' = <<selectedOptions'>>]_vars
  /\ [](lastReported.called =>
          lastReported.keys = [i \in 1..Len(selectedOptions) |->
                                 selectedOptions[i].value])

C10_Witness ==
  /\ lastOp = "toggleAll"
  /\ selectedOptions # prevSelected
  /\ Len(selectedOptions) = NumKeys
  /\ setAlternativeValue
  /\ setAlternativeValueCalls = <<selectedOptions>>
  /\ onValueChangeCalls = <<lastReported.keys>>

(*************************** debounced search ******************************)
\* C11 as stated: a burst of search-text changes followed by a quiet period
\* makes exactly one onSearchChange call, with the burst's final text, and
\* no change of the text makes a call by itself.
C11_OneCallPerBurst ==
  /\ [][(burst > 0 /\ debounceTimer /\ isOpen /\ onSearchChange
          /\ lastOp' = "debounce")
        => onSearchChangeCalls' = <<localSearch>>]_vars
  /\ [][lastOp' = "type" => onSearchChangeCalls' = <<>>]_vars

\* C11, amended: the quiet period after a burst makes one onSearchChange call
\* with the burst's final text when that text differs from the term reported
\* before the burst, and no call when it equals it; no change of the text
\* makes a call by itself, so no intermediate text is passed.
C11_OneCallPerChangedBurst ==
  /\ [][(burst > 0 /\ debounceTimer /\ isOpen /\ onSearchChange
          /\ lastOp' = "debounce")
        => onSearchChangeCalls' =
             IF localSearch # debouncedSearch THEN <<localSearch>> ELSE <<>>]_vars
  /\ [][lastOp' = "type" => onSearchChangeCalls' = <<>>]_vars

\* a burst of three changes has settled and its final text alone was reported
C11_Witness ==
  /\ lastOp = "debounce"
  /\ isOpen
  /\ onSearchChange
  /\ burst = 3
  /\ localSearch # <<>>
  /\ onSearchChangeCalls = <<localSearch>>

(*********************** SingleSelect: filtering ***************************)
\* t occurs in s when letter case is ignored
ContainsIgnoringCase(s, t) ==
  \E i \in 0..(Len(s) - Len(t)) :
    \A j \in 1..Len(t) : LowerChar(s[i + j]) = LowerChar(t[j])

\* the positions of options whose label or key, as strings, contain the term
HitPositions(term) ==
  {i \in 1..Len(options) :
     \/ ContainsIgnoringCase(options[i].label, term)
     \/ ContainsIgnoringCase(StringOfKey(options[i].value), term)}

\* list shows exactly the options at the positions in pos, in option order
ShowsPositions(list, pos) ==
  /\ Len(list) = Cardinality(pos)
  /\ \A i \in pos : list[Cardinality({j \in pos : j <= i})] = options[i]

\* C12: SingleSelect without onSearchChange shows, for a debounced term that
\* is not blank, exactly the options (in option order) whose label or key as
\* a string contains the trimmed term, ignoring case; for a blank term it
\* shows options.
C12_LocalFiltering ==
  (component = "single" /\ ~onSearchChange) =>
    IF Trim(debouncedSearch) = <<>>
    THEN FilteredOptions = options
    ELSE ShowsPositions(FilteredOptions, HitPositions(Trim(debouncedSearch)))

\* the term "2" is debounced: the second option is shown for its key and the
\* third for its label
C12_Witness ==
  /\ component = "single"
  /\ ~onSearchChange
  /\ isOpen
  /\ debouncedSearch = <<"2">>
  /\ FilteredOptions = <<Opt(2), Opt(3)>>

\* C13: SingleSelect with onSearchChange shows the options prop as it is,
\* whatever the search text and the debounced term are.
C13_DelegatedFiltering ==
  (component = "single" /\ onSearchChange) => FilteredOptions = options

\* a term that matches two of the three options is typed and debounced, and
\* all three are shown
C13_Witness ==
  /\ component = "single"
  /\ onSearchChange
  /\ isOpen
  /\ localSearch = <<"a", " ">>
  /\ debouncedSearch = <<"a", " ">>
  /\ Cardinality(HitPositions(Trim(debouncedSearch))) = 2
  /\ FilteredOptions = options

\* C14: SingleSelect calls onSearchChange only with the popover open, and only
\* with the debounced term of that moment.
C14_SearchOnlyWhileOpen ==
  component = "single" =>
    \A i \in 1..Len(onSearchChangeCalls) :
      isOpen /\ onSearchChangeCalls[i] = debouncedSearch

\* a typed term was debounced with the popover open and reported
C14_Witness ==
  /\ component = "single"
  /\ lastOp = "debounce"
  /\ isOpen
  /\ debouncedSearch = <<"A", "B">>
  /\ onSearchChangeCalls = <<debouncedSearch>>

(************************ MultiSelect: the trigger *************************)
Min(a, b) == IF a <= b THEN a ELSE b

\* C15: the MultiSelect trigger shows badges for exactly the first
\* min(|s|, k) items of the selection s in selection order, shows the overflow
\* indicator exactly when |s| > k and then with the count |s| - k, and shows
\* the placeholder exactly when s is empty.
C15_BadgeDisplay ==
  component = "multi" =>
    LET view == TriggerView(selectedOptions, maxCount)
        n == Min(Len(selectedOptions), maxCount)
    IN /\ Len(view.badges) = n
       /\ \A i \in 1..n : view.badges[i] = selectedOptions[i]
       /\ view.overflow <=> Len(selectedOptions) > maxCount
       /\ view.overflow => view.more = Len(selectedOptions) - maxCount
       /\ view.placeholder <=> selectedOptions = <<>>

\* three items are selected with maxCount 2: two badges and "+ 1 more"
C15_Witness ==
  /\ component = "multi"
  /\ lastOp # "mount"
  /\ maxCount = 2
  /\ Len(selectedOptions) = 3
  /\ TriggerView(selectedOptions, maxCount).badges
       = <<selectedOptions[1], selectedOptions[2]>>
  /\ TriggerView(selectedOptions, maxCount).overflow
  /\ TriggerView(selectedOptions, maxCount).more = 1

(****************************** empty state ********************************)
\* C16: in both components, whenever the popover is open and there is no
\* option to show, the list area shows the empty-state message.
C16_EmptyState == (isOpen /\ ShownOptions = <<>>) => EmptyMessageShown

(************************ the in-flight-fetch flag *************************)
\* C17: a change of isFetchingNextPage while the popover is open leaves the
\* installed listeners and the attach timer as they are (nothing is torn
\* down, rescheduled or installed again), and the cell the scroll handler
\* reads holds the new value.
C17_FetchFlagFrame ==
  [][(isOpen /\ lastOp' = "setIsFetchingNextPage")
      => /\ listeners' = listeners
         /\ attachTimer' = attachTimer
         /\ isFetchingNextPageRef' = isFetchingNextPage']_vars

(*********************** SingleSelect: wheel events ************************)
\* the load-more gate of scroll events, on the current props, at position st
GateOpen(st) ==
  hasNextPage /\ ~isFetchingNextPage /\ ~isLoading /\ AtBottom(st)

\* C18: with its listeners attached, SingleSelect leaves a wheel event alone
\* (not prevented, scrollTop unchanged, no load-more call) exactly when the
\* container is at the top and deltaY < 0, or at the bottom with hasNextPage
\* false and deltaY > 0; otherwise it prevents the event, adds deltaY to
\* scrollTop and evaluates the load-more gate at the new position.
C18_WheelHandling ==
  [][(component = "single" /\ listeners # <<>> /\ lastOp' = "wheel")
      => LET d == wheelDelta'
         IN IF \/ AtTop(scrollTop) /\ d < 0
               \/ AtBottom(scrollTop) /\ ~hasNextPage /\ d > 0
            THEN /\ ~defaultPrevented'
                 /\ scrollTop' = scrollTop
                 /\ onLoadMoreCalls' = <<>>
            ELSE /\ defaultPrevented'
                 /\ scrollTop' = Clamp(scrollTop + d)
                 /\ Len(onLoadMoreCalls') = IF GateOpen(scrollTop') THEN 1 ELSE 0]_vars

(************************ attaching the listeners **************************)
\* the steps that end a period of the popover staying open with unchanged
\* hasNextPage, isFetchingNextPage, isLoading and onLoadMore
Disturbed ==
  lastOp \in {"close", "setHasNextPage", "setIsFetchingNextPage", "setIsLoading",
              "setOnLoadMore"}

\* a timer that fires with the popover closed attaches nothing, and a closed
\* popover has no listeners
ClosedAttachesNothing ==
  /\ [][(lastOp' = "attach" /\ ~isOpen') => listeners' = <<>>]_vars
  /\ [](~isOpen => listeners = <<>>)

\* C19 as stated: in both components with onLoadMore supplied, after the
\* popover is opened the listeners are eventually attached unless it is
\* closed or one of the four props changes first; a timer cut short by a
\* close attaches nothing.
C19_EventuallyAttached ==
  /\ [](((lastOp = "open" /\ onLoadMore # "none"))
          => <>(listeners # <<>> \/ Disturbed))
  /\ ClosedAttachesNothing

(************************* the selection's frame ***************************)
\* the steps that are not a toggle, a clear or a trim
FrameOps ==
  {"open", "close", "type", "debounce", "scroll", "wheel", "attach", "setOptions",
   "setHasNextPage", "setIsFetchingNextPage", "setIsLoading"}

\* C20: in MultiSelect, opening and closing the popover, typing, the debounce
\* timer, scroll and wheel events with their load-more calls, and changes of
\* options, hasNextPage, isFetchingNextPage and isLoading leave the selection
\* as it is and call neither onValueChange nor setAlternativeValue.
C20_SelectionFrame ==
  [][(component = "multi" /\ lastOp' \in FrameOps)
      => /\ selectedOptions' = selectedOptions
         /\ onValueChangeCalls' = <<>>
         /\ setAlternativeValueCalls' = <<>>]_vars

\* the options were replaced by a list without one of the selected items,
\* which is still selected
C20_Witness ==
  /\ component = "multi"
  /\ lastOp = "setOptions"
  /\ isOpen
  /\ \E i \in 1..Len(selectedOptions) : ~HasKey(options, selectedOptions[i].value)

(***************************** the loading gate ****************************)
\* C21: in both components, no scroll or wheel event calls onLoadMore while
\* the current isLoading prop is true.
C21_LoadingGate ==
  (lastOp \in {"scroll", "wheel"} /\ isLoading) => onLoadMoreCalls = <<>>

====
